---- MODULE Spec2Model ----
(***************************************************************************)
(* Model of the daily procurement pipeline of src/dags/pipeline.py: the    *)
(* eight Airflow tasks of DAG procurement_daily_pipeline_sequential, the   *)
(* three Trino queries (aggregation, net demand, supplier orders) and the  *)
(* files and tables they read and write.                                   *)
(*                                                                         *)
(* Tables are keyed by their identifying columns (products by sku_id,      *)
(* warehouses by warehouse_id, safety_stock by sku_id,                     *)
(* safety_stock_by_warehouse by (sku_id, warehouse_id), supplier_products  *)
(* by (supplier_id, sku_id), inventory_snapshots by (sku_code,             *)
(* snapshot_date, warehouse_code)).  Query results keep SQL bag semantics: *)
(* every joined row carries the identity of the source rows it was built   *)
(* from, so two derivations of the same visible columns stay two rows.     *)
(* Prices are integers (minor currency units).  CAST(x AS DOUBLE) / y      *)
(* followed by CEILING is exact for the magnitudes explored here and is    *)
(* computed as the integer ceiling of the quotient.                        *)
(***************************************************************************)
EXTENDS Integers, Sequences, FiniteSets, TLC

\* ------------------------------------------------------------------ bounds
NumSku == 2
NumWh == 2
MaxLines == 3
MaxQty == 2
NumSuppliers == 2
MaxPack == 3
MaxMinQty == 3
MaxPrice == 2
MaxStock == 2
MaxRuns == 2
MaxLead == 2

\* --------------------------------------------------------- program constants
Retries == 2

\* max_active_runs and max_active_tasks of the DAG
max_active_runs == 1
max_active_tasks == 1

\* SQL NULL (unmatched side of a LEFT JOIN) and Python None (missing XCom)
NULL == -999

\* a text field of orders.csv that is not the decimal form of an integer
Malformed == -998

\* the run's execution date and an older date still present in Cassandra
RunDate == 2
OldDate == 1

SkuIds == 1..NumSku
WarehouseIds == 1..NumWh
SupplierIds == 1..NumSuppliers

\* products.sku_code and warehouses.warehouse_code of the reference rows
SkuCodeOf(s) == 10 + s
WarehouseCodeOf(w) == 20 + w

\* ------------------------------------------------------------ SQL functions
COALESCE(x, d) == IF x = NULL THEN d ELSE x

GREATEST(a, b) == IF a >= b THEN a ELSE b

\* CEILING(CAST(n AS DOUBLE) / d) for n >= 0, d > 0
CEILING(n, d) == (n + d - 1) \div d

\* variant: the pulled value as it is
OrZero_AsPulled(v) == v

\* Python's `value or 0`
OrZero(v) == IF v = NULL THEN 0 ELSE v

RECURSIVE SumSeq(_, _)
\* SUM(CAST(o.quantity AS BIGINT)) over the lines of q whose index is in I
SumSeq(q, I) ==
    IF I = {} THEN 0
    ELSE LET i == CHOOSE x \in I : TRUE
         IN q[i].quantity + SumSeq(q, I \ {i})

RECURSIVE SumCost(_, _)
\* sum(float(o['total_cost']) for o in supplier_orders), first n elements
SumCost(q, n) == IF n = 0 THEN 0 ELSE q[n].total_cost + SumCost(q, n - 1)

RECURSIVE SumNetDemand(_, _)
\* sum(r['net_demand'] for r in net_demand_results), first n elements
SumNetDemand(q, n) == IF n = 0 THEN 0 ELSE q[n].net_demand + SumNetDemand(q, n - 1)

\* all arrangements of the rows of S in a sequence
Arrangements(S) ==
    {f \in [1..Cardinality(S) -> S] : \A i, j \in DOMAIN f : i # j => f[i] # f[j]}

\* ORDER BY key DESC: every arrangement of S with non-increasing key; rows
\* with equal keys come in any order (no secondary sort key in the queries)
OrderByDesc(S, key(_)) ==
    {f \in Arrangements(S) :
        \A i, j \in DOMAIN f : i < j => key(f[i]) >= key(f[j])}

MapSeq(q, F(_)) == [i \in DOMAIN q |-> F(q[i])]

\* ------------------------------------------------- the Trino queries (CTEs)

\* variant: the join with warehouses left out
MatchedLines_NoWarehouseJoin(lines, db) ==
    {i \in DOMAIN lines : lines[i].sku_id \in db.products}

\* orders o JOIN products p ON CAST(o.sku_id AS BIGINT) = p.sku_id
\*          JOIN warehouses w ON CAST(o.warehouse_id AS BIGINT) = w.warehouse_id:
\* the indexes of the order lines that survive both inner joins
MatchedLines(lines, db) ==
    {i \in DOMAIN lines :
        /\ lines[i].sku_id \in db.products
        /\ lines[i].warehouse_id \in db.warehouses}

\* CAST(o.sku_id AS BIGINT), CAST(o.warehouse_id AS BIGINT) and
\* CAST(o.quantity AS BIGINT) raise on a field that is not an integer and the
\* statement fails as a whole.  The outcomes of cursor.execute (TRUE: it
\* raises): a cast the joins and the SUM certainly evaluate fails the
\* statement; a cast of a line that an earlier join has already dropped is
\* evaluated or not, as the engine plans the query.
CastFailures(lines, db) ==
    IF \E i \in DOMAIN lines :
          \/ lines[i].sku_id = Malformed
          \/ lines[i].sku_id \in db.products /\ lines[i].warehouse_id = Malformed
          \/ i \in MatchedLines(lines, db) /\ lines[i].quantity = Malformed
    THEN {TRUE}
    ELSE IF \E i \in DOMAIN lines :
               Malformed \in {lines[i].warehouse_id, lines[i].quantity}
         THEN {TRUE, FALSE}
         ELSE {FALSE}

\* the lines of one GROUP BY group
GroupLines(lines, db, s, w) ==
    {i \in MatchedLines(lines, db) :
        lines[i].sku_id = s /\ lines[i].warehouse_id = w}

\* CTE aggregated_orders (and the SELECT of aggregate_orders_with_trino):
\* one row per group of joined lines
aggregated_orders(lines, db) ==
    {[sku_id |-> lines[i].sku_id,
      sku_code |-> SkuCodeOf(lines[i].sku_id),
      warehouse_id |-> lines[i].warehouse_id,
      warehouse_code |-> WarehouseCodeOf(lines[i].warehouse_id),
      total_quantity |->
          SumSeq(lines, GroupLines(lines, db, lines[i].sku_id, lines[i].warehouse_id)),
      order_count |->
          Cardinality(GroupLines(lines, db, lines[i].sku_id, lines[i].warehouse_id))]
     : i \in MatchedLines(lines, db)}

\* rows of safety_stock_by_warehouse matching ON ss.sku_id = ssw.sku_id
\* AND w.warehouse_id = ssw.warehouse_id
SswMatches(db, s, w) ==
    {k \in DOMAIN db.safety_stock_by_warehouse : k[1] = s /\ k[2] = w}

\* CTE safety_stock_combined: safety_stock ss CROSS JOIN warehouses w
\* LEFT JOIN safety_stock_by_warehouse ssw
safety_stock_combined(db) ==
    UNION {
        IF SswMatches(db, s, w) = {}
        THEN {[sku_id |-> COALESCE(NULL, s),
               warehouse_id |-> COALESCE(NULL, w),
               safety_stock_qty |-> COALESCE(NULL, COALESCE(db.safety_stock[s], 0)),
               from_ss |-> s, from_w |-> w]}
        ELSE {[sku_id |-> COALESCE(k[1], s),
               warehouse_id |-> COALESCE(k[2], w),
               safety_stock_qty |->
                   COALESCE(db.safety_stock_by_warehouse[k],
                            COALESCE(db.safety_stock[s], 0)),
               from_ss |-> s, from_w |-> w] : k \in SswMatches(db, s, w)}
        : s \in DOMAIN db.safety_stock, w \in db.warehouses}

\* variant: the snapshots of every date
inventory_data_AnyDate(cas, date) ==
    {[sku_code |-> k[1], warehouse_code |-> k[3],
      available_qty |-> cas[k].available_qty,
      reserved_qty |-> cas[k].reserved_qty,
      snapshot_date |-> k[2]] : k \in DOMAIN cas}

\* CTE inventory_data: the snapshots WHERE snapshot_date = DATE '{date_str_iso}'
inventory_data(cas, date) ==
    {[sku_code |-> k[1], warehouse_code |-> k[3],
      available_qty |-> cas[k].available_qty,
      reserved_qty |-> cas[k].reserved_qty,
      snapshot_date |-> k[2]] : k \in {x \in DOMAIN cas : x[2] = date}}

NullSafetyStock ==
    [sku_id |-> NULL, warehouse_id |-> NULL, safety_stock_qty |-> NULL,
     from_ss |-> NULL, from_w |-> NULL]

NullInventory ==
    [sku_code |-> NULL, warehouse_code |-> NULL, available_qty |-> NULL,
     reserved_qty |-> NULL, snapshot_date |-> NULL]

\* LEFT JOIN safety_stock_combined ss ON ao.sku_id = ss.sku_id
\*                                  AND ao.warehouse_id = ss.warehouse_id
JoinSafetyStock(a, ssc) ==
    LET m == {r \in ssc : a.sku_id = r.sku_id /\ a.warehouse_id = r.warehouse_id}
    IN IF m = {} THEN {NullSafetyStock} ELSE m

\* LEFT JOIN inventory_data inv ON ao.sku_code = inv.sku_code
\*                              AND ao.warehouse_code = inv.warehouse_code
JoinInventory(a, inv) ==
    LET m == {r \in inv : a.sku_code = r.sku_code
                          /\ a.warehouse_code = r.warehouse_code}
    IN IF m = {} THEN {NullInventory} ELSE m

\* FROM aggregated_orders ao LEFT JOIN ... LEFT JOIN ...: the joined rows,
\* each with the date_str_iso the statement was formatted with
DemandJoin(lines, db, cas, date) ==
    UNION {
        {[ao |-> a, ss |-> r, inv |-> v, date |-> date] :
            r \in JoinSafetyStock(a, safety_stock_combined(db)),
            v \in JoinInventory(a, inventory_data(cas, date))}
        : a \in aggregated_orders(lines, db)}

\* variant: no floor at zero
NetDemandOf_NoFloor(j) ==
    j.ao.total_quantity + COALESCE(j.ss.safety_stock_qty, 0)
    - (COALESCE(j.inv.available_qty, 0) - COALESCE(j.inv.reserved_qty, 0))

\* GREATEST(0, ao.total_quantity + COALESCE(ss.safety_stock_qty, 0)
\*             - (COALESCE(inv.available_qty, 0) - COALESCE(inv.reserved_qty, 0)))
NetDemandOf(j) ==
    GREATEST(0,
        j.ao.total_quantity + COALESCE(j.ss.safety_stock_qty, 0)
        - (COALESCE(j.inv.available_qty, 0) - COALESCE(j.inv.reserved_qty, 0)))

\* the SELECT list of calculate_net_demand_with_trino plus calculation_date
NetDemandRow(j) ==
    [sku_id |-> j.ao.sku_id, sku_code |-> j.ao.sku_code,
     warehouse_id |-> j.ao.warehouse_id, warehouse_code |-> j.ao.warehouse_code,
     aggregated_orders |-> j.ao.total_quantity,
     safety_stock |-> COALESCE(j.ss.safety_stock_qty, 0),
     available_stock |-> COALESCE(j.inv.available_qty, 0),
     reserved_stock |-> COALESCE(j.inv.reserved_qty, 0),
     effective_stock |->
         COALESCE(j.inv.available_qty, 0) - COALESCE(j.inv.reserved_qty, 0),
     net_demand |-> NetDemandOf(j),
     calculation_date |-> j.date]

\* the possible results of net_demand_sql: ORDER BY net_demand DESC
NetDemandResults(lines, db, cas, date) ==
    {MapSeq(q, NetDemandRow) : q \in OrderByDesc(DemandJoin(lines, db, cas, date), NetDemandOf)}

\* variant: the CTE without the join with inventory_data
net_demand_calc_NoInventory(lines, db, cas, date) ==
    {[nd |-> NetDemandRow(j), src |-> j] : j \in DemandJoin(lines, db, <<>>, date)}

\* CTE net_demand_calc of supplier_orders_sql
net_demand_calc(lines, db, cas, date) ==
    {[nd |-> NetDemandRow(j), src |-> j] : j \in DemandJoin(lines, db, cas, date)}

\* variant: s.is_active not tested
EligibleOffers_AnySupplier(db) ==
    {o \in db.supplier_products :
        o.supplier_id \in DOMAIN db.suppliers /\ o.is_active}

\* supplier_products sp JOIN suppliers s ON sp.supplier_id = s.supplier_id
\* WHERE sp.is_active = TRUE AND s.is_active = TRUE
EligibleOffers(db) ==
    {o \in db.supplier_products :
        /\ o.supplier_id \in DOMAIN db.suppliers
        /\ o.is_active
        /\ db.suppliers[o.supplier_id]}

\* CTE ranked_suppliers: ROW_NUMBER() OVER (PARTITION BY sp.sku_id
\* ORDER BY sp.unit_price ASC); every numbering the engine may produce
\* (offers of one SKU with equal unit_price are numbered in any order)
ranked_suppliers(db) ==
    LET E == EligibleOffers(db)
        Part(o) == {p \in E : p.sku_id = o.sku_id}
    IN {r \in [E -> 1..Cardinality(E)] :
           \A o \in E :
              /\ r[o] <= Cardinality(Part(o))
              /\ \A p \in Part(o) :
                    /\ (p # o => r[p] # r[o])
                    /\ (o.unit_price < p.unit_price => r[o] < r[p])}

\* GREATEST(rs.min_order_qty, CEILING(CAST(nd.net_demand AS DOUBLE) / rs.pack_size)
\*          * rs.pack_size)
OrderQuantity(net_demand, pack_size, min_order_qty) ==
    GREATEST(min_order_qty, CEILING(net_demand, pack_size) * pack_size)

\* variant: total_cost priced on net_demand, not on the rounded quantity
SupplierOrderRow_CostOfDemand(n, o) ==
    [sku_id |-> n.nd.sku_id, warehouse_id |-> n.nd.warehouse_id,
     supplier_id |-> o.supplier_id,
     net_demand |-> n.nd.net_demand,
     pack_size |-> o.pack_size, min_order_qty |-> o.min_order_qty,
     unit_price |-> o.unit_price, lead_time_days |-> o.lead_time_days,
     order_quantity |-> OrderQuantity(n.nd.net_demand, o.pack_size, o.min_order_qty),
     total_cost |-> n.nd.net_demand * o.unit_price,
     expected_delivery_date |-> n.src.date + o.lead_time_days]

\* variant: the delivery date without the lead time
SupplierOrderRow_NoLeadTime(n, o) ==
    [sku_id |-> n.nd.sku_id, warehouse_id |-> n.nd.warehouse_id,
     supplier_id |-> o.supplier_id,
     net_demand |-> n.nd.net_demand,
     pack_size |-> o.pack_size, min_order_qty |-> o.min_order_qty,
     unit_price |-> o.unit_price, lead_time_days |-> o.lead_time_days,
     order_quantity |-> OrderQuantity(n.nd.net_demand, o.pack_size, o.min_order_qty),
     total_cost |->
         OrderQuantity(n.nd.net_demand, o.pack_size, o.min_order_qty) * o.unit_price,
     expected_delivery_date |-> n.src.date]

\* the SELECT list of supplier_orders_sql for one joined row
SupplierOrderRow(n, o) ==
    [sku_id |-> n.nd.sku_id, warehouse_id |-> n.nd.warehouse_id,
     supplier_id |-> o.supplier_id,
     net_demand |-> n.nd.net_demand,
     pack_size |-> o.pack_size, min_order_qty |-> o.min_order_qty,
     unit_price |-> o.unit_price, lead_time_days |-> o.lead_time_days,
     order_quantity |-> OrderQuantity(n.nd.net_demand, o.pack_size, o.min_order_qty),
     total_cost |->
         OrderQuantity(n.nd.net_demand, o.pack_size, o.min_order_qty) * o.unit_price,
     expected_delivery_date |-> n.src.date + o.lead_time_days]

\* variant: RANK() instead of ROW_NUMBER(), every cheapest offer has rank 1
SupplierJoin_RankWithTies(lines, db, cas, date, r) ==
    UNION {
        {[line |-> SupplierOrderRow(n, o), src |-> n.src, offer |-> o] :
            o \in {p \in DOMAIN r :
                      /\ n.nd.sku_id = p.sku_id
                      /\ \A q \in DOMAIN r :
                            q.sku_id = p.sku_id => p.unit_price <= q.unit_price}}
        : n \in {x \in net_demand_calc(lines, db, cas, date) : x.nd.net_demand > 0}}

\* variant: every rank joined, not only price_rank = 1
SupplierJoin_AnyRank(lines, db, cas, date, r) ==
    UNION {
        {[line |-> SupplierOrderRow(n, o), src |-> n.src, offer |-> o] :
            o \in {p \in DOMAIN r : n.nd.sku_id = p.sku_id}}
        : n \in {x \in net_demand_calc(lines, db, cas, date) : x.nd.net_demand > 0}}

\* variant: no WHERE nd.net_demand > 0
SupplierJoin_NoDemandFilter(lines, db, cas, date, r) ==
    UNION {
        {[line |-> SupplierOrderRow(n, o), src |-> n.src, offer |-> o] :
            o \in {p \in DOMAIN r : n.nd.sku_id = p.sku_id /\ r[p] = 1}}
        : n \in net_demand_calc(lines, db, cas, date)}

\* FROM net_demand_calc nd JOIN ranked_suppliers rs ON nd.sku_id = rs.sku_id
\* AND rs.price_rank = 1 WHERE nd.net_demand > 0, for the numbering r
SupplierJoin(lines, db, cas, date, r) ==
    UNION {
        {[line |-> SupplierOrderRow(n, o), src |-> n.src, offer |-> o] :
            o \in {p \in DOMAIN r : n.nd.sku_id = p.sku_id /\ r[p] = 1}}
        : n \in {x \in net_demand_calc(lines, db, cas, date) : x.nd.net_demand > 0}}

TotalCostOf(x) == x.line.total_cost

\* the rows fetched by cursor.fetchall(): ORDER BY total_cost DESC
SupplierOrderResults(lines, db, cas, date) ==
    UNION {OrderByDesc(SupplierJoin(lines, db, cas, date, r), TotalCostOf)
           : r \in ranked_suppliers(db)}

\* ------------------------------------------------------------------- state

VARIABLES
    context,     \* the context passed to the task callables
    raw,         \* local raw files under RAW_PATH for the run date
    db,          \* PostgreSQL reference tables
    cassandra,   \* procurement.inventory_snapshots
    hdfs,        \* files under /procurement
    hive,        \* hive.procurement.orders: its external location
    temp,        \* local files under TEMP_PATH
    task_state,  \* Airflow state of each task instance of the current run
    try_number,  \* failed attempts of each task instance
    xcom,        \* XCom values pushed in the current run
    run,         \* number of the current DAG run
    dag_runs,    \* Airflow state of every DAG run created so far
    logs,        \* the task and exception logs and whether they can be written
    result,      \* what the last call of each task's python_callable ended in
    prev_run     \* what the previous run left in HDFS

vars == <<context, raw, db, cassandra, hdfs, hive, temp, task_state, try_number,
          xcom, run, dag_runs, logs, result, prev_run>>

Tasks == <<"load_orders", "load_stock", "store_snapshots", "create_hive_tables",
           "aggregate_orders", "calculate_net_demand", "generate_supplier_orders",
           "generate_summary">>

TaskIds == {Tasks[i] : i \in DOMAIN Tasks}

\* a >> b >> c ...: the direct upstream tasks of t
Upstream(t) == {Tasks[i] : i \in {k \in 1..(Len(Tasks) - 1) : Tasks[k + 1] = t}}

\* variant: no operator has trigger_rule='all_done'
TriggerRule_AllSuccess(t) == "all_success"

\* variant: trigger_rule='all_done' on every operator
TriggerRule_AllDone(t) == "all_done"

\* trigger_rule of each operator: all_success unless set
TriggerRule(t) == IF t = "generate_summary" THEN "all_done" ELSE "all_success"

File(rows) == [exists |-> TRUE, rows |-> rows]
Missing == [exists |-> FALSE, rows |-> <<>>]

NoTable == 0

Terminal == {"success", "failed", "upstream_failed"}

\* a task instance can be scheduled when its trigger rule is satisfied
CanRun(t) ==
    /\ task_state[t] \in {"none", "up_for_retry"}
    /\ IF TriggerRule(t) = "all_done"
       THEN \A u \in Upstream(t) : task_state[u] \in Terminal
       ELSE \A u \in Upstream(t) : task_state[u] = "success"

\* the task instances and the DAG runs that are executing
RunningTasks == {t \in TaskIds : task_state[t] = "running"}
RunningRuns == {r \in DOMAIN dag_runs : dag_runs[r] = "running"}

\* the python_callable of task t is being executed
Executing(t) == task_state[t] = "running"

\* python_callable of each operator: the task_name the functions log under
PythonCallable(t) ==
    CASE t = "load_orders" -> "load_orders_to_hdfs"
      [] t = "load_stock" -> "load_stock_to_hdfs"
      [] t = "store_snapshots" -> "store_snapshots_to_cassandra"
      [] t = "create_hive_tables" -> "create_hive_tables"
      [] t = "aggregate_orders" -> "aggregate_orders_with_trino"
      [] t = "calculate_net_demand" -> "calculate_net_demand_with_trino"
      [] t = "generate_supplier_orders" -> "generate_supplier_orders_with_trino"
      [] t = "generate_summary" -> "generate_pipeline_summary"

\* how a call of a python_callable ends: not called yet, a returned dict
\* with status "success", a return without a value, or a raised
\* AirflowException(f"{task_name} failed: {str(exception)}")
NotCalled ==
    [status |-> "none", exception |-> "", task_name |-> "", message |-> ""]
Returned ==
    [status |-> "success", exception |-> "", task_name |-> "", message |-> ""]
ReturnedNone ==
    [status |-> "None", exception |-> "", task_name |-> "", message |-> ""]
AirflowException(task_name, message) ==
    [status |-> "raised", exception |-> "AirflowException",
     task_name |-> task_name, message |-> message]

\* the str(e) of the exceptions the task bodies raise
FileNotFound == "file not found"
LocalFileMissing == "no such local file"
CastError == "cannot cast to bigint"

\* log_task_execution(task_name, date_str, "success", ...): the log is
\* written and uploaded; when that raises, the except branch warns and
\* returns "" (the logs as they are afterwards)
log_task_execution(t) ==
    IF logs.writable
    THEN [logs EXCEPT !.entries = @ \cup {<<PythonCallable(t), "success", "">>}]
    ELSE logs

\* the task function returned {"status": "success", ...}; every task but
\* generate_pipeline_summary has called log_task_execution before
Succeed(t) ==
    /\ task_state' = [task_state EXCEPT ![t] = "success"]
    /\ result' = [result EXCEPT ![t] = Returned]
    /\ logs' = IF t = "generate_summary" THEN logs ELSE log_task_execution(t)
    /\ UNCHANGED try_number

\* variant: the raise inside the try block, swallowed with a failed log write
log_exception_RaiseInsideTry(t, e) ==
    IF logs.writable
    THEN /\ logs' = [logs EXCEPT !.entries = @ \cup {<<PythonCallable(t), "exception", e>>}]
         /\ result' = [result EXCEPT ![t] = AirflowException(PythonCallable(t), e)]
         /\ IF try_number[t] < Retries
            THEN /\ task_state' = [task_state EXCEPT ![t] = "up_for_retry"]
                 /\ try_number' = [try_number EXCEPT ![t] = @ + 1]
            ELSE /\ task_state' = [task_state EXCEPT ![t] = "failed"]
                 /\ UNCHANGED try_number
    ELSE /\ task_state' = [task_state EXCEPT ![t] = "success"]
         /\ result' = [result EXCEPT ![t] = ReturnedNone]
         /\ UNCHANGED <<logs, try_number>>

\* log_exception(e, task_name, ...): the exception log is written and
\* uploaded, a failure of that is caught and warned about, and
\* AirflowException is raised after the try block in either case; the task
\* instance is retried `retries` times before it is failed
log_exception(t, e) ==
    /\ logs' = IF logs.writable
               THEN [logs EXCEPT !.entries = @ \cup {<<PythonCallable(t), "exception", e>>}]
               ELSE logs
    /\ result' = [result EXCEPT ![t] = AirflowException(PythonCallable(t), e)]
    /\ IF try_number[t] < Retries
       THEN /\ task_state' = [task_state EXCEPT ![t] = "up_for_retry"]
            /\ try_number' = [try_number EXCEPT ![t] = @ + 1]
       ELSE /\ task_state' = [task_state EXCEPT ![t] = "failed"]
            /\ UNCHANGED try_number

\* ti.xcom_push(key, value) for every key of the record kv
XcomPush(t, kv) ==
    [k \in DOMAIN xcom \cup {<<t, f>> : f \in DOMAIN kv} |->
        IF k[1] = t /\ k[2] \in DOMAIN kv THEN kv[k[2]] ELSE xcom[k]]

\* ti.xcom_pull(task_ids, key): None when nothing was pushed
XcomPull(t, key) == IF <<t, key>> \in DOMAIN xcom THEN xcom[<<t, key>>] ELSE NULL

\* datetime.now() when a task is called without a date in its context: the
\* wall clock is on the day the raw files are for
Today == RunDate

\* context.get('execution_date') or context.get('logical_date') or
\* datetime.now(): the date every task derives its date_str from
ExecutionDate ==
    IF context.execution_date # NULL THEN context.execution_date ELSE Today

\* the rows of hive.procurement.orders: the CSV under its external location
HiveOrders == IF hive = ExecutionDate /\ hdfs.raw_orders.exists
              THEN hdfs.raw_orders.rows ELSE <<>>

\* ------------------------------------------------------------------- tasks

\* the common tail of tasks 5-7: write <name>.json always and <name>.csv only
\* `if rows:`, upload both with hdfs_hook.load_file, push the XComs kv.
\* load_file of a local file that was never written raises, after the JSON
\* has been uploaded.
StoreResults(t, name, rows, kv) ==
    LET json == name \o ".json"
        csv == name \o ".csv"
        tmp == [temp EXCEPT ![json] = File(rows),
                            ![csv] = IF rows # <<>> THEN File(rows) ELSE @]
    IN /\ temp' = tmp
       /\ IF tmp[csv].exists
          THEN /\ hdfs' = [hdfs EXCEPT ![json] = tmp[json], ![csv] = tmp[csv]]
               /\ xcom' = XcomPush(t, kv)
               /\ Succeed(t)
          ELSE /\ hdfs' = [hdfs EXCEPT ![json] = tmp[json]]
               /\ UNCHANGED xcom
               /\ log_exception(t, LocalFileMissing)

load_orders_to_hdfs ==
    /\ Executing("load_orders")
    /\ IF raw.orders.exists
       THEN /\ hdfs' = [hdfs EXCEPT !["raw_orders"] = raw.orders]
            /\ xcom' = XcomPush("load_orders", [date_str |-> ExecutionDate])
            /\ Succeed("load_orders")
       ELSE /\ UNCHANGED <<hdfs, xcom>>
            /\ log_exception("load_orders", FileNotFound)
    /\ UNCHANGED <<context, dag_runs, raw, db, cassandra, hive, temp, run, prev_run>>

load_stock_to_hdfs ==
    /\ Executing("load_stock")
    /\ IF raw.stock.exists
       THEN /\ hdfs' = [hdfs EXCEPT !["raw_stock"] = raw.stock]
            /\ xcom' = XcomPush("load_stock", [hdfs_stock_path |-> ExecutionDate])
            /\ Succeed("load_stock")
       ELSE /\ UNCHANGED <<hdfs, xcom>>
            /\ log_exception("load_stock", FileNotFound)
    /\ UNCHANGED <<context, dag_runs, raw, db, cassandra, hive, temp, run, prev_run>>

\* INSERT INTO inventory_snapshots for every snapshot of the file (an upsert
\* on the primary key)
store_snapshots_to_cassandra ==
    /\ Executing("store_snapshots")
    /\ IF raw.snapshots.exists
       THEN /\ cassandra' =
                 [k \in DOMAIN cassandra \cup DOMAIN raw.snapshots.rows |->
                     IF k \in DOMAIN raw.snapshots.rows
                     THEN raw.snapshots.rows[k] ELSE cassandra[k]]
            /\ xcom' = XcomPush("store_snapshots",
                   [cassandra_inserted_count |-> Cardinality(DOMAIN raw.snapshots.rows)])
            /\ Succeed("store_snapshots")
       ELSE /\ UNCHANGED <<cassandra, xcom>>
            /\ log_exception("store_snapshots", FileNotFound)
    /\ UNCHANGED <<context, dag_runs, raw, db, hdfs, hive, temp, run, prev_run>>

\* variant: CREATE TABLE IF NOT EXISTS without the DROP
create_hive_tables_IfNotExists ==
    /\ Executing("create_hive_tables")
    /\ hive' = IF hive = NoTable THEN ExecutionDate ELSE hive
    /\ xcom' = XcomPush("create_hive_tables",
           [orders_count |-> IF hdfs.raw_orders.exists
                             THEN Len(hdfs.raw_orders.rows) ELSE 0,
            date_str |-> ExecutionDate])
    /\ Succeed("create_hive_tables")
    /\ UNCHANGED <<context, dag_runs, raw, db, cassandra, hdfs, temp, run, prev_run>>

\* DROP TABLE IF EXISTS orders; CREATE TABLE orders WITH external_location =
\* .../orders/{date_str}; SELECT COUNT(*)
create_hive_tables ==
    /\ Executing("create_hive_tables")
    /\ hive' = ExecutionDate
    /\ xcom' = XcomPush("create_hive_tables",
           [orders_count |-> IF hdfs.raw_orders.exists
                             THEN Len(hdfs.raw_orders.rows) ELSE 0,
            date_str |-> ExecutionDate])
    /\ Succeed("create_hive_tables")
    /\ UNCHANGED <<context, dag_runs, raw, db, cassandra, hdfs, temp, run, prev_run>>

TotalQuantityOf(a) == a.total_quantity

aggregate_orders_with_trino ==
    /\ Executing("aggregate_orders")
    /\ \E fails \in CastFailures(HiveOrders, db) :
          IF fails
          THEN /\ log_exception("aggregate_orders", CastError)
               /\ UNCHANGED <<temp, hdfs, xcom>>
          ELSE \E rows \in OrderByDesc(aggregated_orders(HiveOrders, db),
                                      TotalQuantityOf) :
                  StoreResults("aggregate_orders", "aggregated_orders", rows,
                               [aggregated_orders_count |-> Len(rows)])
    /\ UNCHANGED <<context, dag_runs, raw, db, cassandra, hive, run, prev_run>>

calculate_net_demand_with_trino ==
    /\ Executing("calculate_net_demand")
    /\ \E fails \in CastFailures(HiveOrders, db) :
          IF fails
          THEN /\ log_exception("calculate_net_demand", CastError)
               /\ UNCHANGED <<temp, hdfs, xcom>>
          ELSE \E rows \in NetDemandResults(HiveOrders, db, cassandra, ExecutionDate) :
                  StoreResults("calculate_net_demand", "net_demand", rows,
                      [net_demand_count |-> Len(rows),
                       total_net_demand |-> SumNetDemand(rows, Len(rows)),
                       items_with_demand |->
                           Cardinality({i \in DOMAIN rows : rows[i].net_demand > 0})])
    /\ UNCHANGED <<context, dag_runs, raw, db, cassandra, hive, run, prev_run>>

\* Strings that are formatted or compared are sequences of character codes:
\* "0".."9" are 48..57, "-" is 45, "P" is 80 and "O" is 79.

\* execution_date.strftime("%Y-%m-%d"): dates are day numbers counted from
\* the DAG's start_date 2026-01-01 (day 1), all within January 2026
StrftimeIso(d) == <<50, 48, 50, 54, 45, 48, 49, 45, 48 + (d \div 10), 48 + (d % 10)>>

\* date_str_iso.replace('-', '')
ReplaceDash(q) == SelectSeq(q, LAMBDA c : c # 45)

RECURSIVE Digits(_)
\* the decimal digits of n >= 0
Digits(n) == IF n < 10 THEN <<48 + n>> ELSE Digits(n \div 10) \o <<48 + (n % 10)>>

RECURSIVE ZeroPad(_, _)
\* q padded on the left with "0" to at least `width` characters
ZeroPad(q, width) == IF Len(q) >= width THEN q ELSE ZeroPad(<<48>> \o q, width)

\* variant: the sequence number without padding
Format05d_NoPad(i) == Digits(i)

\* f"{i:05d}"
Format05d(i) == ZeroPad(Digits(i), 5)

\* f"PO-{date_str_iso.replace('-', '')}-{i:05d}"
OrderId(date_str_iso, i) ==
    <<80, 79, 45>> \o ReplaceDash(date_str_iso) \o <<45>> \o Format05d(i)

\* for i, row in enumerate(rows, 1): order_id, order_date, status
SupplierOrders(fetched) ==
    [i \in DOMAIN fetched |->
        [sku_id |-> fetched[i].line.sku_id,
         warehouse_id |-> fetched[i].line.warehouse_id,
         supplier_id |-> fetched[i].line.supplier_id,
         net_demand |-> fetched[i].line.net_demand,
         pack_size |-> fetched[i].line.pack_size,
         min_order_qty |-> fetched[i].line.min_order_qty,
         unit_price |-> fetched[i].line.unit_price,
         lead_time_days |-> fetched[i].line.lead_time_days,
         order_quantity |-> fetched[i].line.order_quantity,
         total_cost |-> fetched[i].line.total_cost,
         expected_delivery_date |-> fetched[i].line.expected_delivery_date,
         order_id |-> OrderId(StrftimeIso(ExecutionDate), i),
         order_date |-> StrftimeIso(ExecutionDate),
         status |-> "PENDING"]]

generate_supplier_orders_with_trino ==
    /\ Executing("generate_supplier_orders")
    /\ \E fails \in CastFailures(HiveOrders, db) :
          IF fails
          THEN /\ log_exception("generate_supplier_orders", CastError)
               /\ UNCHANGED <<temp, hdfs, xcom>>
          ELSE \E fetched \in SupplierOrderResults(HiveOrders, db, cassandra,
                                                   ExecutionDate) :
                  LET rows == SupplierOrders(fetched)
                  IN StoreResults("generate_supplier_orders", "supplier_orders", rows,
                         [supplier_orders_count |-> Len(rows),
                          total_procurement_cost |-> SumCost(rows, Len(rows))])
    /\ UNCHANGED <<context, dag_runs, raw, db, cassandra, hive, run, prev_run>>

\* the summary dict of generate_pipeline_summary
Summary ==
    [execution_date |-> ExecutionDate,
     status |-> "completed",
     orders_count |-> OrZero(XcomPull("create_hive_tables", "orders_count")),
     snapshots_inserted |->
         OrZero(XcomPull("store_snapshots", "cassandra_inserted_count")),
     aggregation_combinations |->
         OrZero(XcomPull("aggregate_orders", "aggregated_orders_count")),
     net_demand_combinations |->
         OrZero(XcomPull("calculate_net_demand", "net_demand_count")),
     items_with_demand |->
         OrZero(XcomPull("calculate_net_demand", "items_with_demand")),
     total_quantity |->
         OrZero(XcomPull("calculate_net_demand", "total_net_demand")),
     orders_generated |->
         OrZero(XcomPull("generate_supplier_orders", "supplier_orders_count")),
     total_cost |->
         OrZero(XcomPull("generate_supplier_orders", "total_procurement_cost"))]

generate_pipeline_summary ==
    /\ Executing("generate_summary")
    /\ hdfs' = [hdfs EXCEPT !["summary"] = File(<<Summary>>)]
    /\ Succeed("generate_summary")
    /\ UNCHANGED <<context, dag_runs, raw, db, cassandra, hive, temp, xcom, run, prev_run>>

\* the scheduler: a task whose upstream failed is never run (all_success)
MarkUpstreamFailed ==
    \E t \in TaskIds :
        /\ task_state[t] = "none"
        /\ TriggerRule(t) = "all_success"
        /\ \E u \in Upstream(t) : task_state[u] \in {"failed", "upstream_failed"}
        /\ task_state' = [task_state EXCEPT ![t] = "upstream_failed"]
        /\ UNCHANGED <<context, dag_runs, logs, result, raw, db, cassandra, hdfs, hive,
                       temp, try_number, xcom,
                       run, prev_run>>

\* the scheduler starts a schedulable task instance of the running DAG run
\* while fewer than max_active_tasks task instances of the DAG are running
StartTask ==
    \E t \in TaskIds :
        /\ dag_runs[run] = "running"
        /\ CanRun(t)
        /\ Cardinality(RunningTasks) < max_active_tasks
        /\ task_state' = [task_state EXCEPT ![t] = "running"]
        /\ UNCHANGED <<context, dag_runs, logs, result, raw, db, cassandra, hdfs, hive, temp,
                       try_number, xcom, run, prev_run>>

\* the scheduler closes the DAG run when every task instance is finished:
\* the run has the state of its leaf task
FinishRun ==
    /\ dag_runs[run] = "running"
    /\ \A t \in TaskIds : task_state[t] \in Terminal
    /\ dag_runs' = [dag_runs EXCEPT ![run] =
                       IF task_state[Tasks[Len(Tasks)]] = "success"
                       THEN "success" ELSE "failed"]
    /\ UNCHANGED <<context, logs, result, raw, db, cassandra, hdfs, hive, temp, task_state,
                   try_number, xcom, run, prev_run>>

\* a further DAG run for the date is created (triggered or cleared): queued
TriggerRun ==
    /\ Len(dag_runs) < MaxRuns
    /\ dag_runs' = Append(dag_runs, "queued")
    /\ UNCHANGED <<context, logs, result, raw, db, cassandra, hdfs, hive, temp, task_state,
                   try_number, xcom, run, prev_run>>

\* variant: a queued run starts whatever the number of running runs
NewRun_Unlimited ==
    /\ run + 1 \in DOMAIN dag_runs
    /\ dag_runs[run + 1] = "queued"
    /\ dag_runs' = [dag_runs EXCEPT ![run + 1] = "running"]
    /\ run' = run + 1
    /\ prev_run' = [hdfs |-> hdfs, task_state |-> task_state]
    /\ task_state' = [t \in TaskIds |-> "none"]
    /\ try_number' = [t \in TaskIds |-> 0]
    /\ xcom' = <<>>
    /\ result' = [t \in TaskIds |-> NotCalled]
    /\ UNCHANGED <<context, logs, raw, db, cassandra, hdfs, hive, temp>>

\* the scheduler starts the next queued run while fewer than max_active_runs
\* runs of the DAG are running; local and HDFS files, the Hive table and the
\* Cassandra rows stay, task instances and XComs are new
NewRun ==
    /\ run + 1 \in DOMAIN dag_runs
    /\ dag_runs[run + 1] = "queued"
    /\ Cardinality(RunningRuns) < max_active_runs
    /\ dag_runs' = [dag_runs EXCEPT ![run + 1] = "running"]
    /\ run' = run + 1
    /\ prev_run' = [hdfs |-> hdfs, task_state |-> task_state]
    /\ task_state' = [t \in TaskIds |-> "none"]
    /\ try_number' = [t \in TaskIds |-> 0]
    /\ xcom' = <<>>
    /\ result' = [t \in TaskIds |-> NotCalled]
    /\ UNCHANGED <<context, logs, raw, db, cassandra, hdfs, hive, temp>>

\* schedule_interval '0 23 * * *': the queued run is the scheduled run of the
\* next day.  Its context carries the next date, the raw files delivered
\* for that date have the same content, its HDFS and temporary directories
\* ({date_str} in every path) are new; the Hive table, the Cassandra rows
\* and the logs stay
NewDailyRun ==
    /\ run + 1 \in DOMAIN dag_runs
    /\ dag_runs[run + 1] = "queued"
    /\ Cardinality(RunningRuns) < max_active_runs
    /\ context.execution_date # NULL
    /\ context' = [context EXCEPT !.execution_date = @ + 1]
    /\ dag_runs' = [dag_runs EXCEPT ![run + 1] = "running"]
    /\ run' = run + 1
    /\ prev_run' = [hdfs |-> hdfs, task_state |-> task_state]
    /\ task_state' = [t \in TaskIds |-> "none"]
    /\ try_number' = [t \in TaskIds |-> 0]
    /\ xcom' = <<>>
    /\ result' = [t \in TaskIds |-> NotCalled]
    /\ hdfs' = [f \in DOMAIN hdfs |-> Missing]
    /\ temp' = [f \in DOMAIN temp |-> Missing]
    /\ UNCHANGED <<logs, raw, db, cassandra, hive>>

\* ------------------------------------------------------------------ inputs

OrderLines == [sku_id : SkuIds, warehouse_id : WarehouseIds, quantity : 1..MaxQty]

Line(s, w, q) == [sku_id |-> s, warehouse_id |-> w, quantity |-> q]

LineKey(l) == (l.sku_id * (NumWh + 1) + l.warehouse_id) * (MaxQty + 1) + l.quantity

\* the orders.csv files of up to n lines taken from L (one file per bag of lines)
FilesOver(L, n) ==
    UNION {{f \in [1..k -> L] :
               \A i, j \in 1..k : i < j => LineKey(f[i]) <= LineKey(f[j])}
           : k \in 0..n}

\* files of up to MaxLines lines: any quantity for (SKU 1, warehouse 1) and
\* single units for one other pair
OrderFiles ==
    UNION {FilesOver({l \in OrderLines :
                         \/ l.sku_id = 1 /\ l.warehouse_id = 1
                         \/ l.sku_id = s /\ l.warehouse_id = w /\ l.quantity = 1},
                     MaxLines)
           : s \in SkuIds, w \in WarehouseIds}

\* files of two lines: one unit for (SKU 1, warehouse 1) and a line from L
PairFiles(L) == {<<Line(1, 1, 1), l>> : l \in L}

\* the reference tables complete, without the last SKU, without the last warehouse
ReferenceTables ==
    {<<SkuIds, WarehouseIds>>, <<SkuIds \ {NumSku}, WarehouseIds>>,
     <<SkuIds, WarehouseIds \ {NumWh}>>}

PartialFns(D, R) == UNION {[S -> R] : S \in SUBSET D}

Offer(sup, sku, pack, minq, price, active) ==
    [supplier_id |-> sup, sku_id |-> sku, pack_size |-> pack,
     min_order_qty |-> minq, lead_time_days |-> 1, unit_price |-> price,
     is_active |-> active]

\* one plain active offer per SKU, of supplier 1
PlainOffers == {Offer(1, s, 1, 0, 1, TRUE) : s \in SkuIds}

AllActive == [s \in SupplierIds |-> TRUE]

SnapshotKey(s, w, d) == <<SkuCodeOf(s), d, WarehouseCodeOf(w)>>

Stock(a, r) == [available_qty |-> a, reserved_qty |-> r]

\* snapshot.json of the run date: no snapshot, or one for (SKU 1, warehouse 1)
SnapshotFiles ==
    {<<>>} \cup
    {[k \in {SnapshotKey(1, 1, RunDate)} |-> Stock(a, r)] :
        a \in 0..MaxStock, r \in 0..1}

\* a snapshot of an earlier date already in Cassandra for the same pair
OldSnapshots == [k \in {SnapshotKey(1, 1, OldDate)} |-> Stock(1, 0)]

Scenario(o, p, w, ss, ssw, snap, old, sup, sp) ==
    [orders |-> o, stock |-> File(<<>>), products |-> p, warehouses |-> w,
     safety_stock |-> ss,
     safety_stock_by_warehouse |-> ssw, snapshots |-> snap, old |-> old,
     suppliers |-> sup, supplier_products |-> sp, execution_date |-> RunDate,
     logs_writable |-> TRUE]

\* every order file against the reference tables
AggregationScenarios ==
    {Scenario(File(o), ref[1], ref[2], [s \in {1} |-> 1], <<>>, File(<<>>), <<>>,
              AllActive, PlainOffers) :
        o \in OrderFiles, ref \in ReferenceTables}

\* safety-stock policies and snapshots against two order lines for SKU 1
DemandScenarios ==
    {Scenario(File(o), SkuIds, WarehouseIds, ss, ssw, File(snap), OldSnapshots,
              AllActive, PlainOffers) :
        o \in PairFiles({l \in OrderLines : l.sku_id = 1}),
        ss \in PartialFns({1, NumSku}, {1}),
        ssw \in PartialFns({1} \X {1, NumWh}, {2}),
        snap \in SnapshotFiles}

\* every pack size, minimum order quantity and price of a single offer
QuantityScenarios ==
    {Scenario(File(<<Line(1, 1, q)>>), SkuIds, WarehouseIds, ss, <<>>, File(<<>>),
              <<>>, AllActive, {Offer(1, 1, pack, minq, price, TRUE)}) :
        q \in 1..MaxQty,
        ss \in PartialFns({1}, {1}),
        pack \in 1..MaxPack, minq \in 0..MaxMinQty, price \in 1..MaxPrice}

OfferOptions(sup, sku) ==
    {{}} \cup {{Offer(sup, sku, 1, 0, price, active)} :
                 price \in 1..MaxPrice, active \in BOOLEAN}

\* offers of suppliers 1 and 2 for SKU 1 with every price and activity flag
RankingScenarios ==
    {Scenario(File(o), SkuIds, WarehouseIds, <<>>, <<>>, File(<<>>), <<>>,
              [s \in SupplierIds |-> IF s = 1 THEN a1 ELSE IF s = 2 THEN a2 ELSE TRUE],
              o1 \cup o2) :
        o \in PairFiles({Line(1, 1, 1), Line(1, NumWh, 1), Line(NumSku, 1, 1)}),
        a1 \in BOOLEAN, a2 \in BOOLEAN,
        o1 \in OfferOptions(1, 1), o2 \in OfferOptions(2, 1)}

\* a raw file of the run date is absent
MissingFileScenarios ==
    {[Scenario(o, SkuIds, WarehouseIds, <<>>, <<>>, snap, <<>>, AllActive,
               PlainOffers) EXCEPT !.stock = st] :
        o \in {Missing, File(<<>>)}, st \in {Missing, File(<<>>)},
        snap \in {Missing, File(<<>>)}}

\* two well-formed lines and one with a field that is not an integer
MalformedScenarios ==
    {Scenario(File(<<Line(1, 1, 1), Line(1, NumWh, 1), bad>>), ref[1], ref[2],
              <<>>, <<>>, File(<<>>), <<>>, AllActive, PlainOffers) :
        bad \in {Line(Malformed, 1, 1), Line(1, Malformed, 1), Line(1, 1, Malformed),
                 Line(NumSku, 1, Malformed)},
        ref \in ReferenceTables}

\* an offer of supplier 1 for SKU 1 with unit_price 0 beside the offers of
\* supplier 2
InvalidOfferScenarios ==
    {Scenario(File(<<Line(1, 1, q)>>), SkuIds, WarehouseIds, <<>>, <<>>, File(<<>>),
              <<>>, AllActive, {Offer(1, 1, 1, 0, 0, TRUE)} \cup o2) :
        q \in 1..MaxQty, o2 \in OfferOptions(2, 1)}

\* a plain active offer with the given lead time
OfferWithLead(sup, sku, lead) ==
    [Offer(sup, sku, 1, 0, 1, TRUE) EXCEPT !.lead_time_days = lead]

\* two offers for SKU 1 at the same price with every pair of lead times
LeadTimeScenarios ==
    {Scenario(File(<<Line(1, 1, 1)>>), SkuIds, WarehouseIds, <<>>, <<>>, File(<<>>),
              <<>>, AllActive, {OfferWithLead(1, 1, l1), OfferWithLead(2, 1, l2)}) :
        l1 \in 0..MaxLead, l2 \in 0..MaxLead}

\* the local directory of the task and exception logs cannot be written
LogFailureScenarios ==
    {[sc EXCEPT !.logs_writable = FALSE] :
        sc \in MissingFileScenarios \cup
               {Scenario(File(o), SkuIds, WarehouseIds, <<>>, <<>>, File(<<>>), <<>>,
                         AllActive, PlainOffers) :
                   o \in {<<Line(1, 1, 1)>>, <<Line(1, 1, Malformed)>>}}}

\* a task called with neither execution_date nor logical_date in its context
MissingDateScenarios ==
    {[Scenario(File(o), SkuIds, WarehouseIds, <<>>, <<>>, File(<<>>), <<>>,
               AllActive, PlainOffers) EXCEPT !.execution_date = NULL] :
        o \in PairFiles({Line(1, 1, 1), Line(1, NumWh, 1), Line(NumSku, 1, 1)})}

Scenarios ==
    AggregationScenarios \cup DemandScenarios \cup QuantityScenarios
    \cup RankingScenarios \cup MissingFileScenarios \cup MissingDateScenarios
    \cup MalformedScenarios \cup InvalidOfferScenarios \cup LeadTimeScenarios
    \cup LogFailureScenarios

HdfsFiles ==
    {"raw_orders", "raw_stock", "aggregated_orders.json", "aggregated_orders.csv",
     "net_demand.json", "net_demand.csv", "supplier_orders.json",
     "supplier_orders.csv", "summary"}

TempFiles ==
    {"aggregated_orders.json", "aggregated_orders.csv", "net_demand.json",
     "net_demand.csv", "supplier_orders.json", "supplier_orders.csv"}

\* the state before the first run of the date, for the inputs sc
InitWith(sc) ==
        /\ context = [execution_date |-> sc.execution_date]
        /\ raw = [orders |-> sc.orders, stock |-> sc.stock, snapshots |-> sc.snapshots]
        /\ db = [products |-> sc.products, warehouses |-> sc.warehouses,
                 safety_stock |-> sc.safety_stock,
                 safety_stock_by_warehouse |-> sc.safety_stock_by_warehouse,
                 suppliers |-> sc.suppliers,
                 supplier_products |-> sc.supplier_products]
        /\ cassandra = sc.old
        /\ hdfs = [f \in HdfsFiles |-> Missing]
        /\ hive = NoTable
        /\ temp = [f \in TempFiles |-> Missing]
        /\ task_state = [t \in TaskIds |-> "none"]
        /\ try_number = [t \in TaskIds |-> 0]
        /\ xcom = <<>>
        /\ run = 1
        /\ dag_runs = <<"running">>
        /\ logs = [writable |-> sc.logs_writable, entries |-> {}]
        /\ result = [t \in TaskIds |-> NotCalled]
        /\ prev_run = [hdfs |-> [f \in HdfsFiles |-> Missing],
                       task_state |-> [t \in TaskIds |-> "none"]]

Init == \E sc \in Scenarios : InitWith(sc)

Next ==
    \/ load_orders_to_hdfs
    \/ load_stock_to_hdfs
    \/ store_snapshots_to_cassandra
    \/ create_hive_tables
    \/ aggregate_orders_with_trino
    \/ calculate_net_demand_with_trino
    \/ generate_supplier_orders_with_trino
    \/ generate_pipeline_summary
    \/ MarkUpstreamFailed
    \/ StartTask
    \/ FinishRun

\* one run of the DAG
Spec == Init /\ [][Next]_vars

\* one run of the DAG with a live scheduler and executor: a task instance
\* that can be started is started, a started one runs to its end, a retry
\* is attempted, and the run is closed
SpecLive == Init /\ [][Next]_vars /\ WF_vars(Next)

InitRerun == \E sc \in RankingScenarios \cup MissingFileScenarios : InitWith(sc)

NextRerun == Next \/ TriggerRun \/ NewRun

\* up to MaxRuns runs of the DAG for the same date on the same inputs
SpecRerun == InitRerun /\ [][NextRerun]_vars

InitDaily == \E sc \in MissingFileScenarios \cup LeadTimeScenarios : InitWith(sc)

NextDaily == Next \/ TriggerRun \/ NewDailyRun

\* up to MaxRuns scheduled runs of the DAG on successive dates
SpecDaily == InitDaily /\ [][NextDaily]_vars

\* ------------------------------------------------------------- properties

\* the datasets the three query tasks leave in HDFS
AggregatedOut == hdfs["aggregated_orders.json"].rows
NetDemandOut == hdfs["net_demand.json"].rows
SupplierOrdersOut == hdfs["supplier_orders.json"].rows

Max0(x) == IF x > 0 THEN x ELSE 0

\* C1: every net-demand row has net_demand = max(0, total_quantity +
\* safety_stock - (available_stock - reserved_stock)), never negative, also
\* when reserved_stock exceeds available_stock.
C1_NetDemandFormula ==
    \A i \in DOMAIN NetDemandOut :
        LET r == NetDemandOut[i]
        IN /\ r.net_demand =
                 Max0(r.aggregated_orders + r.safety_stock
                      - (r.available_stock - r.reserved_stock))
           /\ r.net_demand >= 0

\* a net-demand row with negative effective stock
C1_Witness ==
    /\ \E i \in DOMAIN NetDemandOut :
          NetDemandOut[i].reserved_stock > NetDemandOut[i].available_stock
    /\ task_state["calculate_net_demand"] = "success"

RECURSIVE QuantityOfPair(_, _, _, _)
\* the quantities of the first n order lines for SKU s and warehouse w
QuantityOfPair(lines, n, s, w) ==
    IF n = 0 THEN 0
    ELSE (IF lines[n].sku_id = s /\ lines[n].warehouse_id = w
          THEN lines[n].quantity ELSE 0)
         + QuantityOfPair(lines, n - 1, s, w)

\* C2: total_quantity of an aggregated row is the sum of quantity over the
\* order lines of its (sku_id, warehouse_id), both present in the reference
\* tables; a line whose SKU or warehouse is missing there is in no row.
C2_TotalQuantityIsSum ==
    LET lines == raw.orders.rows
    IN /\ \A i \in DOMAIN AggregatedOut :
             LET a == AggregatedOut[i]
             IN /\ a.sku_id \in db.products
                /\ a.warehouse_id \in db.warehouses
                /\ a.total_quantity =
                       QuantityOfPair(lines, Len(lines), a.sku_id, a.warehouse_id)
       /\ \A k \in DOMAIN lines :
             (lines[k].sku_id \notin db.products
              \/ lines[k].warehouse_id \notin db.warehouses)
             => \A i \in DOMAIN AggregatedOut :
                   ~(/\ AggregatedOut[i].sku_id = lines[k].sku_id
                     /\ AggregatedOut[i].warehouse_id = lines[k].warehouse_id)

\* a row summed from two lines next to a line of an unknown warehouse
C2_Witness ==
    /\ \E i \in DOMAIN AggregatedOut :
          AggregatedOut[i].order_count = 2 /\ AggregatedOut[i].total_quantity = 3
    /\ \E k \in DOMAIN raw.orders.rows :
          /\ raw.orders.rows[k].warehouse_id \notin db.warehouses
          /\ raw.orders.rows[k].sku_id \in db.products

\* C3: every supplier order line with net_demand > 0, pack_size > 0 and
\* min_order_qty >= 0 has an order_quantity that is a multiple of pack_size
\* and at least min_order_qty.
C3_PackMultipleAndMinimum ==
    \A i \in DOMAIN SupplierOrdersOut :
        LET l == SupplierOrdersOut[i]
        IN (l.net_demand > 0 /\ l.pack_size > 0 /\ l.min_order_qty >= 0)
           => /\ l.order_quantity % l.pack_size = 0
              /\ l.order_quantity >= l.min_order_qty

\* the safety stock the policy tables prescribe for (s, w)
ResolvedSafetyStock(s, w) ==
    IF <<s, w>> \in DOMAIN db.safety_stock_by_warehouse
    THEN db.safety_stock_by_warehouse[<<s, w>>]
    ELSE IF s \in DOMAIN db.safety_stock THEN db.safety_stock[s] ELSE 0

\* C4: safety_stock of a net-demand row is the per-warehouse entry of its
\* (sku_id, warehouse_id) when there is one, whether or not the SKU has a
\* global entry, else the global entry of the SKU, else 0.
C4_SafetyStockResolution ==
    \A i \in DOMAIN NetDemandOut :
        NetDemandOut[i].safety_stock =
            ResolvedSafetyStock(NetDemandOut[i].sku_id, NetDemandOut[i].warehouse_id)

\* C5: the offer of every supplier order line is active, of an active
\* supplier, and no active offer of an active supplier for the same SKU has
\* a lower unit_price.
C5_CheapestEligibleOffer ==
    \A i \in DOMAIN SupplierOrdersOut :
        LET l == SupplierOrdersOut[i]
        IN /\ \E o \in db.supplier_products :
                 /\ o.supplier_id = l.supplier_id /\ o.sku_id = l.sku_id
                 /\ o.unit_price = l.unit_price
                 /\ o.is_active
                 /\ o.supplier_id \in DOMAIN db.suppliers
                 /\ db.suppliers[o.supplier_id]
           /\ \A e \in db.supplier_products :
                 (/\ e.sku_id = l.sku_id /\ e.is_active
                  /\ e.supplier_id \in DOMAIN db.suppliers
                  /\ db.suppliers[e.supplier_id])
                 => l.unit_price <= e.unit_price

\* a line was emitted although an offer of an inactive supplier is cheaper
C5_Witness ==
    \E i \in DOMAIN SupplierOrdersOut :
        \E e \in db.supplier_products :
            /\ e.sku_id = SupplierOrdersOut[i].sku_id
            /\ e.unit_price < SupplierOrdersOut[i].unit_price
            /\ e.is_active
            /\ ~db.suppliers[e.supplier_id]

\* the supplier order lines for SKU s and warehouse w
LinesOf(s, w) ==
    {i \in DOMAIN SupplierOrdersOut :
        SupplierOrdersOut[i].sku_id = s /\ SupplierOrdersOut[i].warehouse_id = w}

HasDemand(s, w) ==
    \E i \in DOMAIN NetDemandOut :
        /\ NetDemandOut[i].sku_id = s /\ NetDemandOut[i].warehouse_id = w
        /\ NetDemandOut[i].net_demand > 0

HasEligibleOffer(s) ==
    \E o \in db.supplier_products :
        /\ o.sku_id = s /\ o.is_active
        /\ o.supplier_id \in DOMAIN db.suppliers /\ db.suppliers[o.supplier_id]

\* C6: once the supplier-order query has run, its output has exactly one
\* line for each (sku_id, warehouse_id) with net_demand > 0 whose SKU has an
\* eligible offer, and none for one with net_demand > 0 and no eligible offer.
C6_OneLinePerSuppliedDemand ==
    hdfs["supplier_orders.json"].exists =>
        \A s \in SkuIds, w \in WarehouseIds :
            HasDemand(s, w) =>
                Cardinality(LinesOf(s, w)) = IF HasEligibleOffer(s) THEN 1 ELSE 0

\* one SKU with demand got its line from two eligible offers while another
\* SKU with demand and no eligible offer got none
C6_Witness ==
    /\ hdfs["supplier_orders.json"].exists
    /\ \E s \in SkuIds, w \in WarehouseIds :
          /\ HasDemand(s, w)
          /\ Cardinality({o \in db.supplier_products :
                             o.sku_id = s /\ o.is_active
                             /\ db.suppliers[o.supplier_id]}) = 2
          /\ Cardinality(LinesOf(s, w)) = 1
    /\ \E s \in SkuIds, w \in WarehouseIds :
          HasDemand(s, w) /\ ~HasEligibleOffer(s) /\ LinesOf(s, w) = {}

\* C7: every supplier order line has net_demand > 0, and a (sku_id,
\* warehouse_id) whose net demand is 0 has no line.
C7_NoLineWithoutDemand ==
    /\ \A i \in DOMAIN SupplierOrdersOut : SupplierOrdersOut[i].net_demand > 0
    /\ \A j \in DOMAIN NetDemandOut :
          NetDemandOut[j].net_demand = 0
          => LinesOf(NetDemandOut[j].sku_id, NetDemandOut[j].warehouse_id) = {}

\* the supplier-order task succeeded with a zero-demand pair whose SKU has an
\* eligible offer
C7_Witness ==
    /\ task_state["generate_supplier_orders"] = "success"
    /\ SupplierOrdersOut # <<>>
    /\ \E j \in DOMAIN NetDemandOut :
          /\ NetDemandOut[j].net_demand = 0
          /\ HasEligibleOffer(NetDemandOut[j].sku_id)

\* C8: with an orders file of zero lines the aggregation, net-demand and
\* supplier-order tasks raise no error.
C8_EmptyInputNoError ==
    (raw.orders.exists /\ raw.orders.rows = <<>>) =>
        \A t \in {"aggregate_orders", "calculate_net_demand", "generate_supplier_orders"} :
            task_state[t] \notin {"up_for_retry", "failed"}

\* C9: the net-demand output has exactly one row for every aggregated
\* (sku_id, warehouse_id), and no other row.
C9_OneNetDemandRowPerAggregatedRow ==
    hdfs["net_demand.json"].exists =>
        /\ \A i \in DOMAIN AggregatedOut :
              Cardinality({j \in DOMAIN NetDemandOut :
                  /\ NetDemandOut[j].sku_id = AggregatedOut[i].sku_id
                  /\ NetDemandOut[j].warehouse_id = AggregatedOut[i].warehouse_id}) = 1
        /\ Len(NetDemandOut) = Len(AggregatedOut)

\* one aggregated pair matched by safety stock and by snapshots of two dates,
\* another without a snapshot, each with its single net-demand row
C9_Witness ==
    /\ hdfs["net_demand.json"].exists
    /\ Len(NetDemandOut) = 2
    /\ \E j \in DOMAIN NetDemandOut :
          /\ NetDemandOut[j].safety_stock > 0
          /\ NetDemandOut[j].available_stock > 0
          /\ SnapshotKey(NetDemandOut[j].sku_id, NetDemandOut[j].warehouse_id, OldDate)
                 \in DOMAIN cassandra
    /\ \E j \in DOMAIN NetDemandOut :
          /\ <<NetDemandOut[j].sku_code, RunDate, NetDemandOut[j].warehouse_code>>
                 \notin DOMAIN cassandra

\* C10: a second run on the same inputs for the same date leaves the same
\* supplier orders (suppliers, row order, order_id) as the first.
C10_RerunIdentical ==
    (/\ run = 2
     /\ prev_run.task_state["generate_supplier_orders"] = "success"
     /\ task_state["generate_supplier_orders"] = "success")
    => hdfs["supplier_orders.json"] = prev_run.hdfs["supplier_orders.json"]

RECURSIVE ParseInt(_)
\* the number written by the digit characters q
ParseInt(q) ==
    IF q = <<>> THEN 0
    ELSE ParseInt(SubSeq(q, 1, Len(q) - 1)) * 10 + (q[Len(q)] - 48)

RECURSIVE StrLess(_, _)
\* a < b for two strings, character by character
StrLess(a, b) ==
    IF b = <<>> THEN FALSE
    ELSE IF a = <<>> THEN TRUE
    ELSE IF a[1] # b[1] THEN a[1] < b[1]
    ELSE StrLess(Tail(a), Tail(b))

\* C11: the i-th supplier order line (i from 1) has order_id "PO-", the
\* calculation date as YYYYMMDD, "-" and i written with 5 digits, order_date
\* the calculation date and status "PENDING"; the order_ids of a run are
\* pairwise distinct and strictly increasing along the output.
C11_OrderIdSequence ==
    /\ \A i \in DOMAIN SupplierOrdersOut :
          LET o == SupplierOrdersOut[i]
          IN /\ Len(o.order_id) = 17
             /\ SubSeq(o.order_id, 1, 3) = <<80, 79, 45>>
             /\ \A k \in 4..11 : o.order_id[k] \in 48..57
             /\ ParseInt(SubSeq(o.order_id, 4, 11)) = 20260100 + ExecutionDate
             /\ o.order_id[12] = 45
             /\ \A k \in 13..17 : o.order_id[k] \in 48..57
             /\ ParseInt(SubSeq(o.order_id, 13, 17)) = i
             /\ ParseInt(SubSeq(o.order_date, 1, 4)) = 2026
             /\ ParseInt(SubSeq(o.order_date, 6, 7)) = 1
             /\ ParseInt(SubSeq(o.order_date, 9, 10)) = ExecutionDate
             /\ o.status = "PENDING"
    /\ \A i, j \in DOMAIN SupplierOrdersOut :
          i < j => StrLess(SupplierOrdersOut[i].order_id, SupplierOrdersOut[j].order_id)

\* a run that wrote at least two supplier order lines
C11_Witness ==
    /\ task_state["generate_supplier_orders"] = "success"
    /\ Len(SupplierOrdersOut) >= 2

\* the offer of db.supplier_products a supplier order line was built from
SelectedOffer(o) ==
    CHOOSE p \in db.supplier_products :
        p.supplier_id = o.supplier_id /\ p.sku_id = o.sku_id

\* C12: total_cost of every supplier order line is the order_quantity
\* emitted in the line multiplied by the unit_price of the selected offer.
C12_TotalCostIsQuantityTimesPrice ==
    \A i \in DOMAIN SupplierOrdersOut :
        LET o == SupplierOrdersOut[i]
        IN o.total_cost = o.order_quantity * SelectedOffer(o).unit_price

\* a line whose quantity was rounded above net_demand, priced above 1
C12_Witness ==
    /\ task_state["generate_supplier_orders"] = "success"
    /\ \E i \in DOMAIN SupplierOrdersOut :
          /\ SupplierOrdersOut[i].order_quantity > SupplierOrdersOut[i].net_demand
          /\ SelectedOffer(SupplierOrdersOut[i]).unit_price > 1

\* C13: the supplier order lines are sorted by total_cost descending and
\* lines of equal total_cost come in ascending (sku_id, warehouse_id) order,
\* the order in which the order_ids are numbered.
C13_SortedByCostThenKey ==
    \A i, j \in DOMAIN SupplierOrdersOut :
        LET a == SupplierOrdersOut[i]
            b == SupplierOrdersOut[j]
        IN i < j =>
              \/ a.total_cost > b.total_cost
              \/ /\ a.total_cost = b.total_cost
                 /\ \/ a.sku_id < b.sku_id
                    \/ a.sku_id = b.sku_id /\ a.warehouse_id <= b.warehouse_id

\* the net-demand rows with net_demand > 0 whose SKU has no eligible offer
UnsuppliedRows ==
    {i \in DOMAIN NetDemandOut :
        NetDemandOut[i].net_demand > 0 /\ ~HasEligibleOffer(NetDemandOut[i].sku_id)}

\* C14: when rows with net_demand > 0 have no active supplier offer, the
\* supplier-order task does not fail and the summary carries an
\* unsupplied-demand counter equal to the number of these rows.
C14_UnsuppliedDemandCounted ==
    (task_state["calculate_net_demand"] = "success" /\ UnsuppliedRows # {}) =>
        /\ task_state["generate_supplier_orders"] \notin {"up_for_retry", "failed"}
        /\ hdfs["summary"].exists =>
              LET summary == hdfs["summary"].rows[1]
              IN /\ "unsupplied_demand" \in DOMAIN summary
                 /\ summary.unsupplied_demand = Cardinality(UnsuppliedRows)

\* the well-formed order lines whose SKU or warehouse is not in the
\* reference tables
UnmatchedLines ==
    {i \in DOMAIN HiveOrders :
        /\ Malformed \notin {HiveOrders[i].sku_id, HiveOrders[i].warehouse_id,
                             HiveOrders[i].quantity}
        /\ \/ HiveOrders[i].sku_id \notin db.products
           \/ HiveOrders[i].warehouse_id \notin db.warehouses}

\* C15: when order lines reference a SKU or warehouse absent from the
\* reference tables, the aggregation task does not fail, no aggregated row
\* comes from these lines, and the task reports their number as a metric.
C15_UnmatchedLinesCounted ==
    (/\ UnmatchedLines # {}
     /\ CastFailures(HiveOrders, db) = {FALSE}
     /\ task_state["aggregate_orders"] \in {"success", "up_for_retry", "failed"}) =>
        /\ task_state["aggregate_orders"] = "success"
        /\ \A k \in DOMAIN AggregatedOut :
              /\ AggregatedOut[k].sku_id \in db.products
              /\ AggregatedOut[k].warehouse_id \in db.warehouses
        /\ XcomPull("aggregate_orders", "unmatched_count") = Cardinality(UnmatchedLines)

\* C16: an offer with pack_size <= 0 or unit_price <= 0 is never the
\* selected offer of a supplier order line, even when it is the cheapest
\* of its SKU.
C16_InvalidOffersNeverSelected ==
    \A i \in DOMAIN SupplierOrdersOut :
        /\ SelectedOffer(SupplierOrdersOut[i]).pack_size > 0
        /\ SelectedOffer(SupplierOrdersOut[i]).unit_price > 0

\* C17: when the context carries no calculation date, the net-demand and
\* supplier-order tasks do not succeed and write no output for a date
\* substituted for it.
C17_MissingDateAborts ==
    context.execution_date = NULL =>
        /\ task_state["calculate_net_demand"] # "success"
        /\ task_state["generate_supplier_orders"] # "success"
        /\ ~hdfs["net_demand.json"].exists
        /\ ~hdfs["supplier_orders.json"].exists

\* the order lines with a field that is not an integer, and the others
MalformedLines ==
    {i \in DOMAIN HiveOrders :
        Malformed \in {HiveOrders[i].sku_id, HiveOrders[i].warehouse_id,
                       HiveOrders[i].quantity}}
WellFormedLines ==
    SelectSeq(HiveOrders,
              LAMBDA l : Malformed \notin {l.sku_id, l.warehouse_id, l.quantity})

\* C18: when a minority of the order lines has a quantity, sku_id or
\* warehouse_id that is not an integer, the aggregation task does not fail,
\* its output is the aggregation of the well-formed lines, and it reports
\* the number of rejected lines.
C18_MalformedLinesRejectedIndividually ==
    (/\ MalformedLines # {}
     /\ 2 * Cardinality(MalformedLines) < Len(HiveOrders)
     /\ task_state["aggregate_orders"] \in {"success", "up_for_retry", "failed"}) =>
        /\ task_state["aggregate_orders"] = "success"
        /\ {AggregatedOut[k] : k \in DOMAIN AggregatedOut}
               = aggregated_orders(WellFormedLines, db)
        /\ XcomPull("aggregate_orders", "malformed_count") = Cardinality(MalformedLines)

\* C19: at most one DAG run is running and at most one task instance is
\* executing at any time; a run starts only when every earlier run for the
\* date is finished, and a task executes only inside the running run.
C19_OneRunOneTask ==
    /\ Cardinality(RunningRuns) <= 1
    /\ Cardinality(RunningTasks) <= 1
    /\ \A r \in DOMAIN dag_runs : r < run => dag_runs[r] \in {"success", "failed"}
    /\ RunningTasks # {} => dag_runs[run] = "running"

\* a second run is queued while a task of the first run is executing
C19_Witness ==
    /\ Len(dag_runs) = 2
    /\ dag_runs[1] = "running"
    /\ dag_runs[2] = "queued"
    /\ RunningTasks # {}

\* C20: expected_delivery_date of every supplier order line is the
\* calculation date plus the lead_time_days of the selected offer, in days;
\* a lead time of 0 gives the calculation date.
C20_DeliveryDateIsDatePlusLeadTime ==
    \A i \in DOMAIN SupplierOrdersOut :
        LET o == SupplierOrdersOut[i]
        IN /\ o.expected_delivery_date = ExecutionDate + SelectedOffer(o).lead_time_days
           /\ SelectedOffer(o).lead_time_days = 0 => o.expected_delivery_date = ExecutionDate

\* a line from an offer with lead time 0 chosen over one with a longer lead time
C20_Witness ==
    /\ task_state["generate_supplier_orders"] = "success"
    /\ \E i \in DOMAIN SupplierOrdersOut :
          /\ SelectedOffer(SupplierOrdersOut[i]).lead_time_days = 0
          /\ \E p \in db.supplier_products :
                p.sku_id = SupplierOrdersOut[i].sku_id /\ p.lead_time_days = MaxLead

\* task instance t has been started in the current run
Started(t) == task_state[t] \in {"running", "success", "up_for_retry", "failed"}

\* C21: the eight tasks execute in their declared order: each of the tasks
\* two to seven is started only after its predecessor has succeeded and
\* generate_summary only after generate_supplier_orders is finished, so
\* supplier orders are not generated in a run in which store_snapshots or
\* create_hive_tables did not succeed.
C21_TasksInOrder ==
    /\ \A k \in 1..(Len(Tasks) - 1) :
          Started(Tasks[k + 1]) =>
              IF k + 1 < Len(Tasks)
              THEN task_state[Tasks[k]] = "success"
              ELSE task_state[Tasks[k]] \in Terminal
    /\ Started("generate_supplier_orders") =>
          /\ task_state["store_snapshots"] = "success"
          /\ task_state["create_hive_tables"] = "success"

\* store_snapshots has failed and the later tasks up to
\* generate_supplier_orders were never started
C21_Witness ==
    /\ task_state["store_snapshots"] = "failed"
    /\ task_state["load_stock"] = "success"
    /\ task_state["generate_supplier_orders"] = "upstream_failed"
    /\ Started("generate_summary")

\* every task upstream of generate_summary is finished
UpstreamDone ==
    \A t \in TaskIds \ {"generate_summary"} : task_state[t] \in Terminal

\* C22: generate_summary is never started while a task upstream of it is
\* pending or running, and once all of them are finished (success, failed
\* or upstream_failed) generate_summary is eventually started.
C22_SummaryEventuallyRuns ==
    /\ [](Started("generate_summary") => UpstreamDone)
    /\ (UpstreamDone ~> Started("generate_summary"))

\* generate_summary has run in a run whose first task failed
C22_Witness ==
    /\ task_state["load_orders"] = "failed"
    /\ task_state["generate_supplier_orders"] = "upstream_failed"
    /\ task_state["generate_summary"] = "success"

\* the messages of the exceptions the body of task t can raise
BodyErrors(t) ==
    IF t \in {"load_orders", "load_stock", "store_snapshots"} THEN {FileNotFound}
    ELSE IF t \in {"aggregate_orders", "calculate_net_demand",
                   "generate_supplier_orders"}
         THEN {CastError, LocalFileMissing}
         ELSE {}

\* C23: a call of a task function ends either in a returned result with
\* status "success" or in a raised AirflowException that carries the name
\* of the function and the message of the exception its body raised, also
\* when the exception log cannot be written; the task instance succeeds
\* exactly when the function returned, whether or not its execution log
\* could be written.
C23_SuccessOrAirflowException ==
    \A t \in TaskIds :
        /\ result[t].status \in {"none", "success", "raised"}
        /\ result[t].status = "raised" =>
              /\ result[t].exception = "AirflowException"
              /\ result[t].task_name = PythonCallable(t)
              /\ result[t].message \in BodyErrors(t)
              /\ task_state[t] \in {"up_for_retry", "running", "failed"}
        /\ task_state[t] \in {"up_for_retry", "failed"} => result[t].status = "raised"
        /\ task_state[t] = "success" <=> result[t].status = "success"

\* with the logs unwritable, a task has succeeded without a log entry and
\* another has failed on the AirflowException of log_exception
C23_Witness ==
    /\ ~logs.writable
    /\ logs.entries = {}
    /\ task_state["create_hive_tables"] = "success"
    /\ task_state["aggregate_orders"] = "failed"
    /\ result["aggregate_orders"] = AirflowException("aggregate_orders_with_trino", CastError)

\* C24: the summary generate_summary writes has status "completed" and
\* every counter whose producing task did not succeed is 0, so a run with
\* a failed task still has a summary with status "completed".
C24_SummaryCompletedWithZeroCounts ==
    hdfs["summary"].exists =>
        LET summary == hdfs["summary"].rows[1]
        IN /\ summary.status = "completed"
           /\ task_state["create_hive_tables"] # "success" => summary.orders_count = 0
           /\ task_state["store_snapshots"] # "success" =>
                 summary.snapshots_inserted = 0
           /\ task_state["aggregate_orders"] # "success" =>
                 summary.aggregation_combinations = 0
           /\ task_state["calculate_net_demand"] # "success" =>
                 /\ summary.net_demand_combinations = 0
                 /\ summary.items_with_demand = 0
                 /\ summary.total_quantity = 0
           /\ task_state["generate_supplier_orders"] # "success" =>
                 /\ summary.orders_generated = 0
                 /\ summary.total_cost = 0

\* the summary of a run in which store_snapshots failed after load_orders
\* and load_stock succeeded
C24_Witness ==
    /\ hdfs["summary"].exists
    /\ task_state["store_snapshots"] = "failed"
    /\ task_state["generate_supplier_orders"] = "upstream_failed"
    /\ hdfs["summary"].rows[1].status = "completed"
    /\ hdfs["summary"].rows[1].orders_generated = 0

\* C25: the supplier-order stage recomputes net_demand from the tables;
\* with the tables unchanged between the two stages, the (sku_id,
\* warehouse_id) of every supplier order line has a row in the net-demand
\* output with the same net_demand.
C25_SameNetDemandInBothStages ==
    task_state["generate_supplier_orders"] = "success" =>
        \A i \in DOMAIN SupplierOrdersOut :
            \E k \in DOMAIN NetDemandOut :
                /\ NetDemandOut[k].sku_id = SupplierOrdersOut[i].sku_id
                /\ NetDemandOut[k].warehouse_id = SupplierOrdersOut[i].warehouse_id
                /\ NetDemandOut[k].net_demand = SupplierOrdersOut[i].net_demand

\* a supplier order line whose net_demand was reduced by the stock of a snapshot
C25_Witness ==
    /\ task_state["generate_supplier_orders"] = "success"
    /\ \E i \in DOMAIN SupplierOrdersOut, k \in DOMAIN NetDemandOut :
          /\ NetDemandOut[k].sku_id = SupplierOrdersOut[i].sku_id
          /\ NetDemandOut[k].warehouse_id = SupplierOrdersOut[i].warehouse_id
          /\ NetDemandOut[k].effective_stock > 0
          /\ SupplierOrdersOut[i].net_demand
                = NetDemandOut[k].aggregated_orders + NetDemandOut[k].safety_stock
                  - NetDemandOut[k].effective_stock

\* C26: whenever aggregate_orders, calculate_net_demand or
\* generate_supplier_orders executes in a run for date D, the Hive table
\* orders exists and its location is the directory of D, which holds the
\* orders file of D, on every day the DAG runs.
C26_HiveTableOfRunDate ==
    \A t \in {"aggregate_orders", "calculate_net_demand", "generate_supplier_orders"} :
        Executing(t) =>
            /\ hive # NoTable
            /\ hive = context.execution_date
            /\ hdfs.raw_orders.exists

\* aggregate_orders executes in the run of the second day
C26_Witness ==
    /\ run = 2
    /\ context.execution_date = RunDate + 1
    /\ prev_run.task_state["create_hive_tables"] = "success"
    /\ Executing("aggregate_orders")

\* C27: the supplier order lines of a run that have the same sku_id carry
\* the same supplier_id, pack_size, min_order_qty, unit_price and
\* lead_time_days, whatever their warehouse.
C27_OneOfferPerSku ==
    \A i, j \in DOMAIN SupplierOrdersOut :
        LET a == SupplierOrdersOut[i]
            b == SupplierOrdersOut[j]
        IN a.sku_id = b.sku_id =>
              /\ a.supplier_id = b.supplier_id
              /\ a.pack_size = b.pack_size
              /\ a.min_order_qty = b.min_order_qty
              /\ a.unit_price = b.unit_price
              /\ a.lead_time_days = b.lead_time_days

\* two lines for one SKU in different warehouses while two eligible offers
\* of the SKU have the same lowest price
C27_Witness ==
    /\ task_state["generate_supplier_orders"] = "success"
    /\ \E i, j \in DOMAIN SupplierOrdersOut :
          /\ SupplierOrdersOut[i].sku_id = SupplierOrdersOut[j].sku_id
          /\ SupplierOrdersOut[i].warehouse_id # SupplierOrdersOut[j].warehouse_id
          /\ \E p, q \in EligibleOffers(db) :
                /\ p # q
                /\ p.sku_id = SupplierOrdersOut[i].sku_id
                /\ q.sku_id = p.sku_id
                /\ p.unit_price = q.unit_price
                /\ p.unit_price = SupplierOrdersOut[i].unit_price
====
